---- MODULE Spec2Model ----
(***************************************************************************)
(* wtfis: bulk IP enrichment (clients/ipwhois.py) and the report views     *)
(* (ui/view.py).                                                           *)
(*                                                                         *)
(* Spec      the run of IpWhoisClient.bulk_get_ipwhois, one loop iteration *)
(*           per step, the provider's answer chosen per call.              *)
(* SpecView  DomainView.resolutions_panel / DomainView.print and           *)
(*           IpAddressView.ip_panel / IpAddressView.print applied to       *)
(*           inputs drawn from bounded sets.                               *)
(*                                                                         *)
(* IP addresses are the numbers 1..NumIPs.  Field values that the views    *)
(* only pass on to the table generator are symbolic strings; NoneStr is    *)
(* Python's None in a string-valued position, None in an object-valued one.*)
(***************************************************************************)
EXTENDS Integers, Sequences, FiniteSets, TLC

VARIABLES
    resolutions,        \* Resolutions: [data, meta.count], or None (view only)
    max_ips_to_enrich,  \* bulk_get_ipwhois argument
    idx,                \* enumerate() index of the bulk loop, 0-based
    ipwhois_map,        \* the dict built by bulk_get_ipwhois
    calls,              \* addresses requested from the provider, in order
    outcomes,           \* the provider's answer to each request, in order
    pc,                 \* "loop" | "returned" | "raised" | "idle"
    result,             \* the IpWhoisMap returned, None before the return
    view,               \* "DomainView" | "IpAddressView" | "none"
    entity,             \* the primary entity of the view
    whois,              \* TRUE iff whois_panel has something to show
    ip_enrich,          \* the view's IpWhoisMap / ShodanIpMap
    max_resolutions,    \* DomainView.max_resolutions
    panel,              \* last value returned by resolutions_panel / ip_panel
    printed,            \* what print() handed to console.print
    vpc                 \* "new" | "panel" | "printed" | "idle"

vars == <<resolutions, max_ips_to_enrich, idx, ipwhois_map, calls, outcomes,
          pc, result, view, entity, whois, ip_enrich, max_resolutions, panel,
          printed, vpc>>

bulkVars == <<max_ips_to_enrich, idx, ipwhois_map, calls, outcomes, pc, result>>
viewVars == <<view, entity, whois, ip_enrich, max_resolutions, panel, printed, vpc>>

----------------------------------------------------------------------------
(* Bounds *)

NumIPs   == 2      \* distinct IP addresses
MaxLen   == 3      \* longest fetched resolution sequence
MaxCap   == 4      \* largest max_ips_to_enrich / max_resolutions
MaxCount == 4      \* largest meta.count

----------------------------------------------------------------------------
(* Values *)

IPs == 1..NumIPs

None == [kind |-> "None"]
NoneStr == "None"

Min(a, b) == IF a < b THEN a ELSE b

RECURSIVE SeqsUpTo(_, _)
SeqsUpTo(S, n) ==
    IF n = 0 THEN {<<>>}
    ELSE LET shorter == SeqsUpTo(S, n - 1)
         IN shorter \cup {Append(s, x) : s \in {t \in shorter : Len(t) = n - 1}, x \in S}

Resolutions(data, count) == [kind |-> "Resolutions", data |-> data, meta |-> [count |-> count]]

EmptyMap == <<>>

MapPut(m, k, v) == [x \in (DOMAIN m) \cup {k} |-> IF x = k THEN v ELSE m[x]]

----------------------------------------------------------------------------
(* clients/ipwhois.py *)

\* The record ipwho.is answers with for address ip; its ip field is the
\* address that was asked for.
IpWhois(ip) == [kind |-> "IpWhois", ip |-> ip, isp |-> "isp"]

\* What one request to the provider can come to.
Responses == {"success", "no_success", "error"}

\* BaseClient._get: an HTTP or transport failure raises, anything else is
\* the decoded body.
_get_raises(response) == response = "error"

get_ipwhois(ip, response) ==
    IF response = "success" THEN IpWhois(ip) ELSE None

CapReached_OffByOne(i, k) == i = k + 1

CapReached_Never(i, k) == FALSE

CapReached(i, k) == i = k

StoreIpWhois(m, ip, ipwhois) ==
    IF ipwhois # None THEN MapPut(m, ipwhois.ip, ipwhois) ELSE m

\* for idx, ip in enumerate(resolutions.data): one iteration that does not break
BulkIterate(response) ==
    /\ pc = "loop"
    /\ idx < Len(resolutions.data)
    /\ ~CapReached(idx, max_ips_to_enrich)
    /\ LET ip == resolutions.data[idx + 1]
       IN /\ calls' = Append(calls, ip)
          /\ outcomes' = Append(outcomes, response)
          /\ IF _get_raises(response)
             THEN /\ pc' = "raised"
                  /\ UNCHANGED <<idx, ipwhois_map>>
             ELSE /\ ipwhois_map' = StoreIpWhois(ipwhois_map, ip, get_ipwhois(ip, response))
                  /\ idx' = idx + 1
                  /\ pc' = "loop"
    /\ UNCHANGED <<resolutions, max_ips_to_enrich, result>>
    /\ UNCHANGED viewVars

\* the loop ends (break at the cap, or data exhausted) and the map is returned
BulkReturn ==
    /\ pc = "loop"
    /\ \/ idx = Len(resolutions.data)
       \/ CapReached(idx, max_ips_to_enrich)
    /\ pc' = "returned"
    /\ result' = [kind |-> "IpWhoisMap", root |-> ipwhois_map]
    /\ UNCHANGED <<resolutions, max_ips_to_enrich, idx, ipwhois_map, calls, outcomes>>
    /\ UNCHANGED viewVars

ViewIdle ==
    /\ view = "none"
    /\ entity = None
    /\ whois = FALSE
    /\ ip_enrich = EmptyMap
    /\ max_resolutions = 0
    /\ panel = None
    /\ printed = None
    /\ vpc = "idle"

Init ==
    /\ resolutions \in {Resolutions(d, Len(d)) : d \in SeqsUpTo(IPs, MaxLen)}
    /\ max_ips_to_enrich \in 0..MaxCap
    /\ idx = 0
    /\ ipwhois_map = EmptyMap
    /\ calls = <<>>
    /\ outcomes = <<>>
    /\ pc = "loop"
    /\ result = None
    /\ ViewIdle

Next ==
    \/ \E response \in Responses : BulkIterate(response)
    \/ BulkReturn

Spec == Init /\ [][Next]_vars

----------------------------------------------------------------------------
(* ui/view.py *)

\* The Shodan record of address ip: a fully populated one, or one whose
\* optional fields (asn, os, tags) are empty.
ShodanIp(ip, full) ==
    [kind |-> "Shodan", ip |-> ip,
     asn  |-> IF full THEN "AS1" ELSE NoneStr,
     os   |-> IF full THEN "os" ELSE NoneStr,
     tags |-> IF full THEN <<"tag">> ELSE <<>>]

IpWhoisMaps ==
    {[kind |-> "IpWhoisMap", root |-> [ip \in S |-> IpWhois(ip)]] : S \in SUBSET IPs}

ShodanIpMaps ==
    UNION {{[kind |-> "ShodanIpMap", root |-> [ip \in S |-> ShodanIp(ip, f[ip])]]
              : f \in [S -> BOOLEAN]} : S \in SUBSET IPs}

\* Renderables
Blank == [type |-> "blank"]
Info(heading, body) == [type |-> "info", heading |-> heading, body |-> body]
More(n) == [type |-> "more", n |-> n]
Panel(title, content) == [kind |-> "Panel", title |-> title, content |-> content]

\* BaseView._get_ip_enrichment: the record stored under ip, None without one
_get_ip_enrichment(enrichMap, ip) ==
    IF ip \in DOMAIN enrichMap.root THEN enrichMap.root[ip] ELSE None

\* BaseView.whois_panel: a panel when there is whois data, else None
whois_panel(hasWhois) ==
    IF hasWhois THEN Panel("whois", <<>>) ELSE None

isinstance_IpWhois(enrich) == enrich.kind = "IpWhois"

IpWhoisRows_WithOS(enrich) ==
    << <<"ASN:", "asn (org)">>,
       <<"ISP:", enrich.isp>>,
       <<"Location:", "city, region, country">>,
       <<"OS:", NoneStr>> >>

IpWhoisRows(enrich) ==
    << <<"ASN:", "asn (org)">>,
       <<"ISP:", enrich.isp>>,
       <<"Location:", "city, region, country">> >>

ShodanRows(enrich) ==
    LET asn  == IF enrich.asn # NoneStr THEN "asn (org)" ELSE NoneStr
        tags == IF enrich.tags # <<>> THEN "tags" ELSE NoneStr
    IN << <<"ASN:", asn>>,
          <<"ISP:", "isp">>,
          <<"Location:", "city, region, country">>,
          <<"OS:", enrich.os>>,
          <<"Services", "services">>,
          <<"Tags:", tags>>,
          <<"Last Scan:", "date">> >>

\* if enrich: ... isinstance(enrich, IpWhois) ... else ...
EnrichRows(enrich) ==
    IF enrich # None
    THEN IF isinstance_IpWhois(enrich)
         THEN IpWhoisRows(enrich)
         ELSE ShodanRows(enrich)
    ELSE <<>>

ResolutionRows_NoEnrich(enrichMap, ip) ==
    << <<"Analysis:", "analysis">>, <<"Resolved:", "date">> >>

\* data = [Analysis, Resolved] + the enrichment rows of the resolution's IP
ResolutionRows(enrichMap, ip) ==
    << <<"Analysis:", "analysis">>, <<"Resolved:", "date">> >>
        \o EnrichRows(_get_ip_enrichment(enrichMap, ip))

BreakAt_OneLate(i, m) == i = m + 1

\* if idx == self.max_resolutions: break
BreakAt(i, m) == i = m

NeedsSeparator_OnlyCap(i, m, len) == i < m - 1

\* Add extra line break if not last item in list
NeedsSeparator(i, m, len) == i < m - 1 /\ i < len - 1

MoreShown_OrEqual(m, count) == m <= count

\* Info about how many more IPs were not shown
MoreShown(m, count) == m < count

MoreCount(m, count) == count - m

RECURSIVE PanelLoop(_, _, _, _, _)
PanelLoop(data, i, m, enrichMap, content) ==
    IF i = Len(data) \/ BreakAt(i, m)
    THEN content
    ELSE LET ip   == data[i + 1]
             item == Info(ip, ResolutionRows(enrichMap, ip))
             c1   == Append(content, item)
             c2   == IF NeedsSeparator(i, m, Len(data)) THEN Append(c1, Blank) ELSE c1
         IN PanelLoop(data, i + 1, m, enrichMap, c2)

\* "if not self.resolutions" is taken only by None: a Resolutions object is
\* truthy whatever its data holds.
resolutions_panel(res, m, enrichMap) ==
    IF res = None
    THEN None
    ELSE LET shown   == PanelLoop(res.data, 0, m, enrichMap, <<>>)
             content == IF MoreShown(m, res.meta.count)
                        THEN Append(shown, More(MoreCount(m, res.meta.count)))
                        ELSE shown
         IN IF content # <<>> THEN Panel("resolutions", content) ELSE None

domain_panel ==
    Panel("virustotal",
          <<Info("domain", << <<"Analysis:", "analysis">>,
                              <<"Reputation:", "reputation">>,
                              <<"Popularity:", "popularity">>,
                              <<"Categories:", "categories">>,
                              <<"Last Modified:", "date">>,
                              <<"Last Seen:", "date">> >>)>>)

ip_panel(ent, enrichMap) ==
    Panel("ip",
          <<Info(ent.id_, << <<"Analysis:", "analysis">>,
                             <<"Reputation:", "reputation">>,
                             <<"Last Modified:", "date">> >>
                             \o EnrichRows(_get_ip_enrichment(enrichMap, ent.id_)))>>)

\* [i for i in (...) if i is not None]
NotNone(panels) == SelectSeq(panels, LAMBDA p : p # None)

\* Group(*([""] + renderables)) or Padding(Columns(renderables), (1, 0))
Layout(one_column, renderables) ==
    IF one_column
    THEN [layout |-> "group", items |-> <<Blank>> \o renderables]
    ELSE [layout |-> "columns", items |-> renderables]

ResolutionsPanel ==
    /\ view = "DomainView"
    /\ vpc = "new"
    /\ panel' = resolutions_panel(resolutions, max_resolutions, ip_enrich)
    /\ vpc' = "panel"
    /\ UNCHANGED <<resolutions, view, entity, whois, ip_enrich, max_resolutions, printed>>
    /\ UNCHANGED bulkVars

DomainPrint(one_column) ==
    /\ view = "DomainView"
    /\ vpc \in {"new", "panel"}
    /\ LET rp == resolutions_panel(resolutions, max_resolutions, ip_enrich)
       IN /\ panel' = rp
          /\ printed' = Layout(one_column, NotNone(<<domain_panel, rp, whois_panel(whois)>>))
    /\ vpc' = "printed"
    /\ UNCHANGED <<resolutions, view, entity, whois, ip_enrich, max_resolutions>>
    /\ UNCHANGED bulkVars

IpPanel ==
    /\ view = "IpAddressView"
    /\ vpc = "new"
    /\ panel' = ip_panel(entity, ip_enrich)
    /\ vpc' = "panel"
    /\ UNCHANGED <<resolutions, view, entity, whois, ip_enrich, max_resolutions, printed>>
    /\ UNCHANGED bulkVars

IpPrint(one_column) ==
    /\ view = "IpAddressView"
    /\ vpc \in {"new", "panel"}
    /\ LET p == ip_panel(entity, ip_enrich)
       IN /\ panel' = p
          /\ printed' = Layout(one_column, NotNone(<<p, whois_panel(whois)>>))
    /\ vpc' = "printed"
    /\ UNCHANGED <<resolutions, view, entity, whois, ip_enrich, max_resolutions>>
    /\ UNCHANGED bulkVars

BulkIdle ==
    /\ max_ips_to_enrich = 0
    /\ idx = 0
    /\ ipwhois_map = EmptyMap
    /\ calls = <<>>
    /\ outcomes = <<>>
    /\ pc = "idle"
    /\ result = None

InitView ==
    /\ BulkIdle
    /\ ip_enrich \in IpWhoisMaps \cup ShodanIpMaps
    /\ whois \in BOOLEAN
    /\ panel = None
    /\ printed = None
    /\ vpc = "new"
    /\ \/ /\ view = "DomainView"
          /\ entity = [type |-> "domain"]
          /\ resolutions \in {None} \cup
                 UNION {{Resolutions(d, t) : t \in Len(d)..MaxCount} : d \in SeqsUpTo(IPs, MaxLen)}
          /\ max_resolutions \in 0..MaxCap
       \/ /\ view = "IpAddressView"
          /\ entity \in {[type |-> "ip_address", id_ |-> ip] : ip \in IPs}
          /\ resolutions = None
          /\ max_resolutions = 0

NextView ==
    \/ ResolutionsPanel
    \/ \E one_column \in BOOLEAN : DomainPrint(one_column)
    \/ IpPanel
    \/ \E one_column \in BOOLEAN : IpPrint(one_column)

SpecView == InitView /\ [][NextView]_vars

----------------------------------------------------------------------------
(* Properties of bulk_get_ipwhois (checked under Spec) *)

WithinCap == 1..Min(max_ips_to_enrich, Len(resolutions.data))

\* addresses of the resolutions within the cap whose lookup returned a record
Succeeded ==
    {resolutions.data[i] : i \in {j \in WithinCap : j <= Len(outcomes) /\ outcomes[j] = "success"}}

CallCount(ip) == Cardinality({i \in 1..Len(calls) : calls[i] = ip})

\* C1: the returned map has at most max_ips_to_enrich keys, and its keys are
\* exactly the addresses of the first max_ips_to_enrich resolutions whose
\* provider lookup returned a record.
C1_KeysAreEnrichedWithinCap ==
    pc = "returned" =>
        /\ DOMAIN result.root = Succeeded
        /\ Cardinality(DOMAIN result.root) <= max_ips_to_enrich

C1_Witness ==
    /\ pc = "returned"
    /\ max_ips_to_enrich >= 2
    /\ Len(resolutions.data) > max_ips_to_enrich
    /\ \E i \in 1..Len(outcomes) : outcomes[i] = "no_success"
    /\ DOMAIN result.root # {}

\* C2 as stated: the provider is called exactly once for each distinct
\* address among the first max_ips_to_enrich resolutions, never for a
\* resolution beyond the cap, and with a cap of 0 it is not called and the
\* returned map is empty.
C2_OncePerDistinctIp ==
    /\ \A ip \in IPs : CallCount(ip) <= 1
    /\ \A i \in 1..Len(calls) : \E j \in WithinCap : calls[i] = resolutions.data[j]
    /\ pc = "returned" =>
           \A ip \in {resolutions.data[j] : j \in WithinCap} : CallCount(ip) = 1
    /\ max_ips_to_enrich = 0 =>
           /\ calls = <<>>
           /\ pc = "returned" => result.root = EmptyMap

\* C2 amended: the provider is called once per resolution entry, in the
\* original order, for the entries within the cap (an address that occurs
\* twice within the cap is requested twice), never for an entry beyond the
\* cap; a run that returns a map has made exactly min(cap, len) calls; with
\* a cap of 0 no call is made and the returned map is empty.
C2_OncePerEntryWithinCap ==
    /\ Len(calls) <= Min(max_ips_to_enrich, Len(resolutions.data))
    /\ \A i \in 1..Len(calls) : calls[i] = resolutions.data[i]
    /\ pc = "returned" => Len(calls) = Min(max_ips_to_enrich, Len(resolutions.data))
    /\ max_ips_to_enrich = 0 =>
           /\ calls = <<>>
           /\ pc = "returned" => result.root = EmptyMap

C2_Witness ==
    /\ pc = "returned"
    /\ max_ips_to_enrich >= 2
    /\ Len(resolutions.data) > max_ips_to_enrich
    /\ resolutions.data[1] = resolutions.data[2]
    /\ Len(calls) = max_ips_to_enrich

\* C3: a transport/auth error of one lookup within the cap does not fail the
\* bulk enrichment: the run goes on to the remaining entries within the cap
\* and returns a map that omits the address whose lookup failed.
C3_TransportErrorTolerated ==
    (\E i \in 1..Len(outcomes) : outcomes[i] = "error") =>
        /\ pc # "raised"
        /\ pc = "returned" =>
               /\ Len(calls) = Min(max_ips_to_enrich, Len(resolutions.data))
               /\ DOMAIN result.root = Succeeded

----------------------------------------------------------------------------
(* Properties of the views (checked under SpecView) *)

DomainBuilt == view = "DomainView" /\ vpc \in {"panel", "printed"}
IpBuilt == view = "IpAddressView" /\ vpc \in {"panel", "printed"}

RenderedContent == IF panel = None THEN <<>> ELSE panel.content
Entries == SelectSeq(RenderedContent, LAMBDA c : c.type = "info")
Separators == SelectSeq(RenderedContent, LAMBDA c : c.type = "blank")
Markers == SelectSeq(RenderedContent, LAMBDA c : c.type = "more")

Headings(items) == [i \in 1..Len(items) |-> items[i].heading]
Labels(rows) == [i \in 1..Len(rows) |-> rows[i][1]]
LabelSet(rows) == {rows[i][1] : i \in 1..Len(rows)}

GeoLabels == <<"ASN:", "ISP:", "Location:">>
ServiceLabels == {"OS:", "Services", "Tags:", "Last Scan:"}

\* C4: the rendered entries are the first min(max_resolutions, len(fetched))
\* resolutions in their original order, never more than max_resolutions.
C4_RenderedArePrefix ==
    (DomainBuilt /\ resolutions # None) =>
        /\ Headings(Entries) =
               SubSeq(resolutions.data, 1, Min(max_resolutions, Len(resolutions.data)))
        /\ Len(Entries) <= max_resolutions

C4_Witness ==
    /\ DomainBuilt
    /\ resolutions # None
    /\ max_resolutions >= 2
    /\ Len(resolutions.data) > max_resolutions
    /\ Len(Entries) = max_resolutions
    /\ Entries[1].heading # Entries[2].heading

\* C5: the "+N more" marker is appended iff max_resolutions < meta.count, and
\* then N = meta.count - max_resolutions.
C5_MoreMarker ==
    (DomainBuilt /\ resolutions # None) =>
        /\ Len(Markers) <= 1
        /\ Len(Markers) = 1 <=> max_resolutions < resolutions.meta.count
        /\ Len(Markers) = 1 =>
               /\ Markers[1].n = resolutions.meta.count - max_resolutions
               /\ RenderedContent[Len(RenderedContent)] = Markers[1]

C5_Witness ==
    /\ DomainBuilt
    /\ resolutions # None
    /\ Len(Entries) >= 2
    /\ Len(Markers) = 1
    /\ Markers[1].n >= 2

\* C6: N rendered entries come with exactly N-1 blank separators (0 for
\* N = 0), each one between two consecutive entries, none after the last.
C6_SeparatorsBetweenEntries ==
    DomainBuilt =>
        /\ Len(Separators) = (IF Len(Entries) = 0 THEN 0 ELSE Len(Entries) - 1)
        /\ \A i \in 1..Len(RenderedContent) :
               RenderedContent[i].type = "blank" =>
                   /\ i > 1
                   /\ i < Len(RenderedContent)
                   /\ RenderedContent[i - 1].type = "info"
                   /\ RenderedContent[i + 1].type = "info"

C6_Witness ==
    /\ DomainBuilt
    /\ Len(Entries) >= 3
    /\ Len(Separators) = Len(Entries) - 1
    /\ Len(Markers) = 1

\* C7: a rendered entry has enrichment fields iff its address is a key of the
\* enrichment map; without one it holds exactly Analysis and Resolved.
C7_EnrichmentIffKey ==
    DomainBuilt =>
        \A i \in 1..Len(Entries) :
            LET e == Entries[i]
                enriched == e.heading \in DOMAIN ip_enrich.root
            IN /\ SubSeq(Labels(e.body), 1, 2) = <<"Analysis:", "Resolved:">>
               /\ Len(e.body) > 2 <=> enriched
               /\ enriched => SubSeq(Labels(e.body), 3, 5) = GeoLabels
               /\ ~enriched => Labels(e.body) = <<"Analysis:", "Resolved:">>

C7_Witness ==
    /\ DomainBuilt
    /\ Len(Entries) >= 2
    /\ \E i, j \in 1..Len(Entries) :
           /\ Entries[i].heading \in DOMAIN ip_enrich.root
           /\ Len(Entries[i].body) > 2
           /\ Entries[j].heading \notin DOMAIN ip_enrich.root
           /\ Len(Entries[j].body) = 2

\* the rows an entry holds after its first n (the view's own) rows
After(rows, n) == SubSeq(rows, n + 1, Len(rows))

GeoOnly(e, n) ==
    LET enriched == e.heading \in DOMAIN ip_enrich.root
    IN /\ (enriched /\ ip_enrich.root[e.heading].kind = "IpWhois") =>
              /\ Labels(After(e.body, n)) = GeoLabels
              /\ LabelSet(e.body) \cap ServiceLabels = {}
       /\ LabelSet(e.body) \cap ServiceLabels # {} =>
              /\ enriched
              /\ ip_enrich.root[e.heading].kind = "Shodan"
              /\ ServiceLabels \subseteq LabelSet(e.body)

\* C8: in the domain report and in the bare-IP report an entry enriched by an
\* IpWhois record has exactly the fields ASN, ISP, Location added; OS,
\* Services, Tags and Last Scan appear only with a Shodan record.
C8_VariantIsolation ==
    /\ DomainBuilt => \A i \in 1..Len(Entries) : GeoOnly(Entries[i], 2)
    /\ IpBuilt => \A i \in 1..Len(Entries) : GeoOnly(Entries[i], 3)

C8_WitnessDomain ==
    /\ DomainBuilt
    /\ ip_enrich.kind = "IpWhoisMap"
    /\ \E i \in 1..Len(Entries) : Len(Entries[i].body) = 5

C8_Witness ==
    /\ IpBuilt
    /\ ip_enrich.kind = "IpWhoisMap"
    /\ Len(Entries) = 1
    /\ Len(Entries[1].body) = 6

PrintedTitles ==
    LET panels == SelectSeq(printed.items, LAMBDA p : p # Blank)
    IN [i \in 1..Len(panels) |-> panels[i].title]

\* C9: with resolutions absent or the fetched sequence empty,
\* resolutions_panel returns no section and print renders only the entity
\* section and then the whois section, whatever max_resolutions and
\* meta.count are.
C9_NoSectionWithoutResolutions ==
    (DomainBuilt /\ (resolutions = None \/ resolutions.data = <<>>)) =>
        /\ panel = None
        /\ vpc = "printed" =>
               PrintedTitles = (IF whois THEN <<"virustotal", "whois">> ELSE <<"virustotal">>)

\* C10: when the "+N more" marker is appended, the rendered entries plus N
\* make up meta.count.
C10_MarkerCountsTheRest ==
    (DomainBuilt /\ resolutions # None /\ Len(Markers) = 1) =>
        Len(Entries) + Markers[1].n = resolutions.meta.count

====
